---- MODULE Spec2Model ----
(***************************************************************************)
(* Model of target_netsuite/__init__.py: one run of upload_journals.       *)
(*                                                                         *)
(*   get_reference_data  five independent try/except fetches               *)
(*   load_journal_entries  column validation, groupby(...).apply(...)     *)
(*   build_lines         one group of rows -> one journal entry dict       *)
(*   upload_journals     posts the returned entries one after another      *)
(*                                                                         *)
(* Cell values of the DataFrame are tagged, so that Python truthiness,     *)
(* str() and == behave as they do on ints, strings, NaN and None.          *)
(* Amounts are integers in thousandths; rounded amounts are hundredths.    *)
(* A Classification / Department name is the sequence of its " - "         *)
(* separated tokens.                                                       *)
(***************************************************************************)
EXTENDS Integers, Sequences, FiniteSets, TLC

VARIABLES pc, failing, reference_data, fetch_log, df, groups, build_calls,
          lines, journals, posted, exc

vars == <<pc, failing, reference_data, fetch_log, df, groups, build_calls,
          lines, journals, posted, exc>>

\* Bounds of the explored inputs.
MaxRows == 3
MaxGroupRows == 2

----------------------------------------------------------------------------
\* Python values of DataFrame cells and record fields.

IntCell(s) == [t |-> "int", v |-> s]
StrCell(s) == [t |-> "str", v |-> s]
NaN == [t |-> "nan", v |-> "nan"]
None == [t |-> "none", v |-> "None"]

\* bool(value): None, 0 and "" are falsy; NaN is truthy.
Truthy(c) ==
  CASE c.t = "none" -> FALSE
    [] c.t = "int" -> c.v # "0"
    [] c.t = "str" -> c.v # ""
    [] c.t = "nan" -> TRUE

\* str(value): the decimal digits of an int, "nan" for NaN, "None" for None.
PyStr(c) == StrCell(c.v)

\* value == value: NaN equals nothing, an int never equals a string.
PyEq(a, b) == a.t # "nan" /\ b.t # "nan" /\ a = b

\* Journal Entry Id cells carry an integer so that groupby can sort them.
IdCell(n) == [t |-> "int", n |-> n]
IdNaN == [t |-> "nan", n |-> 0]

\* dict[key] = value
Put(d, k, val) == [x \in (DOMAIN d) \cup {k} |-> IF x = k THEN val ELSE d[x]]

\* del dict[key]
Del(d, k) == [x \in (DOMAIN d) \ {k} |-> d[x]]

EmptyDict == [x \in {} |-> None]

\* round(amount, 2) on thousandths: nearest hundredth, exact ties to even.
Round2(a) ==
  LET q == a \div 10
      r == a % 10
  IN  IF r < 5 THEN q
      ELSE IF r > 5 THEN q + 1
      ELSE IF q % 2 = 0 THEN q ELSE q + 1

----------------------------------------------------------------------------
\* The collaborator: the five collections and what get_all() returns.

Collections == {"Locations", "Accounts", "Classifications", "Currencies", "Departments"}

ParentSubsidiary ==
  [name |-> StrCell("Parent Company"), internalId |-> StrCell("5"),
   externalId |-> None, type |-> None]

Server ==
  [Locations |-> << [name |-> StrCell("HQ"), externalId |-> None, internalId |-> StrCell("31")] >>,
   Accounts |-> << [acctNumber |-> StrCell("100"), acctName |-> StrCell("Cash"),
                    externalId |-> None, internalId |-> StrCell("11"),
                    subsidiaryList |-> << ParentSubsidiary >>],
                   [acctNumber |-> StrCell("200"), acctName |-> StrCell("Sales"),
                    externalId |-> None, internalId |-> StrCell("12"),
                    subsidiaryList |-> << >>] >>,
   Classifications |-> << [name |-> <<"Sales", "US">>, externalId |-> None, internalId |-> StrCell("21")] >>,
   Currencies |-> << [symbol |-> StrCell("USD"), externalId |-> None, internalId |-> StrCell("1")] >>,
   Departments |-> << [name |-> <<"Ops">>, externalId |-> None, internalId |-> StrCell("41")] >>]

\* One try/except block of get_reference_data, raising: missing handler.
TryGetAllNoExcept(rd, c, fails) ==
  IF c \in fails THEN [reference_data |-> rd, raised |-> TRUE]
  ELSE [reference_data |-> Put(rd, c, Server[c]), raised |-> FALSE]

\* One try/except block of get_reference_data: the request error is caught
\* and logged, the key is simply not set.
TryGetAll(rd, c, fails) ==
  IF c \in fails THEN [reference_data |-> rd, raised |-> FALSE]
  ELSE [reference_data |-> Put(rd, c, Server[c]), raised |-> FALSE]

\* ref_data.get(c), as used in a truth test: missing key and empty list
\* are both falsy.
Get(ref_data, c) == IF c \in DOMAIN ref_data THEN ref_data[c] ELSE << >>

----------------------------------------------------------------------------
\* load_journal_entries: validation and grouping.

REQUIRED_COLS ==
  {"Transaction Date", "Journal Entry Id", "Customer Name", "Class",
   "Account Number", "Account Name", "Posting Type", "Description"}

AllCols == REQUIRED_COLS \cup {"Amount", "Subsidiary", "Department", "Location", "Currency"}

\* any() instead of all()
HasSomeRequiredCol(cols) == \E col \in REQUIRED_COLS : col \in cols

\* all(col in cols for col in REQUIRED_COLS)
HasRequiredCols(cols) == \A col \in REQUIRED_COLS : col \in cols

RECURSIVE SortAsc(_)
SortAsc(S) ==
  IF S = {} THEN << >>
  ELSE LET m == CHOOSE a \in S : \A b \in S : a <= b
       IN  <<m>> \o SortAsc(S \ {m})

RECURSIVE FirstSeen(_, _)
\* distinct non-NaN ids in order of first appearance
FirstSeen(rows, seen) ==
  IF rows = << >> THEN << >>
  ELSE LET c == Head(rows).JournalEntryId
       IN  IF c.t = "nan" \/ c.n \in seen THEN FirstSeen(Tail(rows), seen)
           ELSE <<c.n>> \o FirstSeen(Tail(rows), seen \cup {c.n})

\* groupby(sort=False): keys in order of first appearance
GroupKeysUnsorted(rows) == FirstSeen(rows, {})

\* groupby(["Journal Entry Id"]): sort=True and dropna=True by default, so
\* the keys are the distinct non-NaN ids in ascending order.
GroupKeys(rows) ==
  SortAsc({rows[i].JournalEntryId.n : i \in {j \in 1..Len(rows) : rows[j].JournalEntryId.t # "nan"}})

RECURSIVE IndexOf(_, _, _)
\* positions (in file order) of the rows whose id equals key
IndexOf(rows, key, i) ==
  IF i > Len(rows) THEN << >>
  ELSE IF rows[i].JournalEntryId.t # "nan" /\ rows[i].JournalEntryId.n = key
       THEN <<i>> \o IndexOf(rows, key, i + 1)
       ELSE IndexOf(rows, key, i + 1)

\* the groups handed to apply(): one per key, rows in original order
GroupBy(rows) ==
  LET keys == GroupKeys(rows)
  IN  [k \in 1..Len(keys) |-> [key |-> keys[k], index |-> IndexOf(rows, keys[k], 1)]]

----------------------------------------------------------------------------
\* build_lines(x, ref_data).  x is [columns, rows, index]: the group's rows
\* in order and the DataFrame index label of each.  Dicts built in the loop
\* live in st.heap; st.line_items and st.journal_entry_line hold references
\* (positions in the heap), because the code appends the dict object that
\* the local name journal_entry_line is bound to at that moment.
\* journal_entry_line = 0 is the unbound local name.

UnboundLine == "UnboundLocalError: journal_entry_line"
UnboundCurrency == "UnboundLocalError: currency_ref"

InitLoop ==
  [line_items |-> << >>, heap |-> << >>, journal_entry_line |-> 0,
   subsidiaries |-> EmptyDict, appended_by |-> << >>, exc |-> ""]

\* {"name": d.get(nameKey), "externalId": ..., "internalId": ...}
Ref(name, d) == [name |-> name, externalId |-> d.externalId, internalId |-> d.internalId]

\* journal_entry_line[key] = val
SetItem(st, key, val) ==
  IF st.exc # "" THEN st
  ELSE IF st.journal_entry_line = 0 THEN [st EXCEPT !.exc = UnboundLine]
  ELSE [st EXCEPT !.heap[st.journal_entry_line] = Put(@, key, val)]

\* the subsidiary of a row: the explicit value, else the account's first
\* default subsidiary, else nothing (a sequence of zero or one records)
SubsidiaryOf(row, acct) ==
  IF Truthy(row.Subsidiary)
  THEN << [name |-> None, internalId |-> row.Subsidiary, externalId |-> None, type |-> None] >>
  ELSE IF acct.subsidiaryList # << >> THEN << acct.subsidiaryList[1] >> ELSE << >>

\* lines 122-140: a fresh line dict bound to journal_entry_line, and the
\* side of the entry that the row's subsidiary goes to
AccountBlock(st, row, acct) ==
  LET sub == SubsidiaryOf(row, acct)
      subs == IF sub = << >> THEN st.subsidiaries
              ELSE IF row.PostingType = StrCell("Credit") THEN Put(st.subsidiaries, "toSubsidiary", sub[1])
              ELSE IF row.PostingType = StrCell("Debit") THEN Put(st.subsidiaries, "subsidiary", sub[1])
              ELSE st.subsidiaries
  IN  [st EXCEPT !.heap = Append(@, ("account" :> Ref(acct.acctName, acct))),
                 !.journal_entry_line = Len(st.heap) + 1,
                 !.subsidiaries = subs]

\* row[...] in d["name"].split(" - ")
TokenMatch(cell, d) == cell.t = "str" /\ \E k \in 1..Len(d.name) : d.name[k] = cell.v

\* lines 175-179: Credit and Debit are exclusive branches
AmountBlock(st, row) ==
  IF row.PostingType = StrCell("Credit") THEN SetItem(st, "credit", Round2(row.Amount))
  ELSE IF row.PostingType = StrCell("Debit") THEN SetItem(st, "debit", Round2(row.Amount))
  ELSE st

\* line 185: line_items.append(journal_entry_line)
AppendLine(st, i) ==
  IF st.exc # "" THEN st
  ELSE IF st.journal_entry_line = 0 THEN [st EXCEPT !.exc = UnboundLine]
  ELSE [st EXCEPT !.line_items = Append(@, st.journal_entry_line),
                  !.appended_by = Append(@, i)]

\* one iteration of "for _, row in x.iterrows()", i the row's index label
LoopBody(st, row, i, x, ref_data) ==
  LET accounts == Get(ref_data, "Accounts")
      hasAcct == accounts # << >> /\ Truthy(row.AccountNumber)
      acct_num == PyStr(row.AccountNumber)
      acct_data == SelectSeq(accounts, LAMBDA a : PyEq(a.acctNumber, acct_num))
      class_data == SelectSeq(Get(ref_data, "Classifications"), LAMBDA d : TokenMatch(row.Class, d))
      dept_data == SelectSeq(Get(ref_data, "Departments"), LAMBDA d : TokenMatch(row.Department, d))
      loc_data == SelectSeq(Get(ref_data, "Locations"), LAMBDA l : PyEq(l.name, row.Location))
  IN  IF st.exc # "" THEN st
      ELSE IF hasAcct /\ acct_data = << >> THEN st   \* warning, continue
      ELSE
        LET s1 == IF hasAcct THEN AccountBlock(st, row, acct_data[1]) ELSE st
            s2 == IF Truthy(row.Class) /\ class_data # << >>
                  THEN SetItem(s1, "class", Ref(class_data[1].name, class_data[1])) ELSE s1
            s3 == IF Truthy(row.Department) /\ dept_data # << >>
                  THEN SetItem(s2, "department", Ref(dept_data[1].name, dept_data[1])) ELSE s2
            s4 == IF Truthy(row.Location) /\ loc_data # << >>
                  THEN SetItem(s3, "location", Ref(loc_data[1].name, loc_data[1])) ELSE s3
            s5 == AmountBlock(s4, row)
            s6 == IF "Description" \in x.columns
                  THEN SetItem(s5, "memo", x.rows[1].Description) ELSE s5
        IN  AppendLine(s6, i)

RECURSIVE Loop(_, _, _, _)
Loop(st, k, x, ref_data) ==
  IF k > Len(x.rows) THEN st
  ELSE Loop(LoopBody(st, x.rows[k], x.index[k], x, ref_data), k + 1, x, ref_data)

\* lines 187-200: currency_ref as a sequence, << >> when the name is left
\* unbound, <<None>> or <<ref>> when it is assigned
CurrencyRef(row, ref_data) ==
  LET currencies == Get(ref_data, "Currencies")
      currency_data == SelectSeq(currencies, LAMBDA c : PyEq(c.symbol, row.Currency))
  IN  IF currencies # << >> /\ Truthy(row.Currency)
      THEN IF currency_data # << >>
           THEN << Ref(currency_data[1].symbol, currency_data[1]) >>
           ELSE << >>
      ELSE << None >>

\* lines 202-205: the two subsidiary dicts are compared as a whole
Collapse(subsidiaries) ==
  IF Cardinality(DOMAIN subsidiaries) > 1
     /\ subsidiaries["subsidiary"] = subsidiaries["toSubsidiary"]
  THEN Del(subsidiaries, "toSubsidiary")
  ELSE subsidiaries

\* pd.to_datetime(value)
ToDatetime(c) == [t |-> "datetime", v |-> c.v]

\* the whole function: exc = "" and the returned dict, or the exception;
\* appended_by[k] is the index label of the row whose iteration appended
\* lineList[k]
BuildLines(x, ref_data) ==
  LET st == Loop(InitLoop, 1, x, ref_data)
      row == x.rows[Len(x.rows)]
      currency_ref == CurrencyRef(row, ref_data)
      subsidiaries == Collapse(st.subsidiaries)
      created_date == IF "Transaction Date" \in x.columns
                      THEN ToDatetime(x.rows[1].TransactionDate) ELSE None
      journal_entry ==
        ("createdDate" :> created_date) @@ ("tranDate" :> created_date) @@
        ("externalId" :> x.rows[1].JournalEntryId) @@
        ("lineList" :> [k \in 1..Len(st.line_items) |-> st.heap[st.line_items[k]]]) @@
        ("currency" :> currency_ref[1])
  IN  IF st.exc # "" THEN [exc |-> st.exc, journal_entry |-> EmptyDict, appended_by |-> << >>]
      ELSE IF currency_ref = << >>
      THEN [exc |-> UnboundCurrency, journal_entry |-> EmptyDict, appended_by |-> << >>]
      ELSE [exc |-> "", journal_entry |-> subsidiaries @@ journal_entry,
            appended_by |-> st.appended_by]

\* the group as the DataFrame passed to build_lines
GroupFrame(frame, g) ==
  [columns |-> frame.columns,
   rows |-> [k \in 1..Len(g.index) |-> frame.rows[g.index[k]]],
   index |-> g.index]

----------------------------------------------------------------------------
\* The run: upload_journals.  pc is the position in it.

\* the interpreter's exit status once the run is over
ExitCode == IF pc = "done" THEN 0 ELSE 1

\* one try block: the request for collection c, then the next block
Fetch(c, next) ==
  /\ pc = c
  /\ LET r == TryGetAll(reference_data, c, failing)
     IN  /\ reference_data' = r.reference_data
         /\ pc' = IF r.raised THEN "raised" ELSE next
         /\ exc' = IF r.raised THEN "NetSuiteRequestError" ELSE exc
  /\ fetch_log' = Append(fetch_log, c)
  /\ UNCHANGED <<failing, df, groups, build_calls, lines, journals, posted>>

\* lines 80-84
FetchLocations == Fetch("Locations", "Accounts")
\* lines 85-89
FetchAccounts == Fetch("Accounts", "Classifications")
\* lines 90-94
FetchClassifications == Fetch("Classifications", "Currencies")
\* lines 95-99
FetchCurrencies == Fetch("Currencies", "Departments")
\* lines 100-106
FetchDepartments == Fetch("Departments", "validate")

\* lines 231-249: the columns are checked; sys.exit(1) when one is missing
Validate ==
  /\ pc = "validate"
  /\ pc' = IF HasRequiredCols(df.columns) THEN "groupby" ELSE "exit"
  /\ UNCHANGED <<failing, reference_data, fetch_log, df, groups, build_calls,
                 lines, journals, posted, exc>>

\* line 253, df.groupby(["Journal Entry Id"])
Group ==
  /\ pc = "groupby"
  /\ groups' = GroupBy(df.rows)
  /\ pc' = "apply"
  /\ UNCHANGED <<failing, reference_data, fetch_log, df, build_calls, lines,
                 journals, posted, exc>>

\* line 253, .apply(build_lines, reference_data): one call per group, in
\* the order of the groups; an exception that is not a RuntimeError leaves
\* load_journal_entries and upload_journals
Apply ==
  /\ pc = "apply"
  /\ build_calls < Len(groups)
  /\ LET r == BuildLines(GroupFrame(df, groups[build_calls + 1]), reference_data)
     IN  /\ build_calls' = build_calls + 1
         /\ IF r.exc = ""
            THEN /\ lines' = Append(lines, [journal_entry |-> r.journal_entry,
                                            appended_by |-> r.appended_by])
                 /\ UNCHANGED <<pc, exc>>
            ELSE /\ pc' = "raised"
                 /\ exc' = r.exc
                 /\ UNCHANGED lines
  /\ UNCHANGED <<failing, reference_data, fetch_log, df, groups, journals, posted>>

\* lines 258-260 and 275: return lines.values
Return ==
  /\ pc = "apply"
  /\ build_calls = Len(groups)
  /\ journals' = [k \in 1..Len(lines) |-> lines[k].journal_entry]
  /\ pc' = "post"
  /\ UNCHANGED <<failing, reference_data, fetch_log, df, groups, build_calls,
                 lines, posted, exc>>

\* lines 278-279 and 263-267: the next journal is handed to the client's
\* post, which answers or raises; nothing in upload_journals catches
Post ==
  /\ pc = "post"
  /\ Len(posted) < Len(journals)
  /\ \E ok \in BOOLEAN :
       /\ posted' = Append(posted, [journal |-> Len(posted) + 1, ok |-> ok])
       /\ pc' = IF ok THEN "post" ELSE "raised"
       /\ exc' = IF ok THEN exc ELSE "NetSuiteRequestError"
  /\ UNCHANGED <<failing, reference_data, fetch_log, df, groups, build_calls,
                 lines, journals>>

\* the loop of upload_journals ends, upload and main return
Finish ==
  /\ pc = "post"
  /\ Len(posted) = Len(journals)
  /\ pc' = "done"
  /\ UNCHANGED <<failing, reference_data, fetch_log, df, groups, build_calls,
                 lines, journals, posted, exc>>

Next ==
  \/ FetchLocations
  \/ FetchAccounts
  \/ FetchClassifications
  \/ FetchCurrencies
  \/ FetchDepartments
  \/ Validate
  \/ Group
  \/ Apply
  \/ Return
  \/ Post
  \/ Finish

----------------------------------------------------------------------------
\* Inputs: the requests that fail, and the DataFrame read from the CSV.

Row(id, acct, posting, amount, subsidiary, currency) ==
  [JournalEntryId |-> id, TransactionDate |-> StrCell("2021-03-31"),
   CustomerName |-> StrCell("ACME"), Class |-> StrCell("Sales"),
   AccountNumber |-> acct, AccountName |-> StrCell("Cash"),
   PostingType |-> posting, Description |-> StrCell("March close"),
   Amount |-> amount, Subsidiary |-> subsidiary, Department |-> StrCell("Ops"),
   Location |-> StrCell("HQ"), Currency |-> currency]

\* non-empty tables of at most n rows
Tables(RowSet, n) == UNION {[1..k -> RowSet] : k \in 1..n}

InitWith(FailSets, ColSets, TableSet) ==
  /\ pc = "Locations"
  /\ failing \in FailSets
  /\ df \in [columns : ColSets, rows : TableSet]
  /\ reference_data = EmptyDict
  /\ fetch_log = << >>
  /\ groups = << >>
  /\ build_calls = 0
  /\ lines = << >>
  /\ journals = << >>
  /\ posted = << >>
  /\ exc = ""

ColSets == {AllCols, AllCols \ {"Description"}}

\* the whole run: ids (one of them missing), matching, unknown and zero
\* account numbers
RunRows ==
  {Row(id, acct, StrCell("Credit"), 150004, None, StrCell("USD")) :
     id \in {IdCell(1), IdCell(2), IdNaN},
     acct \in {IntCell("100"), IntCell("999"), IntCell("0")}}

Init == InitWith({{}, {"Departments"}}, ColSets, Tables(RunRows, MaxRows))

Spec == Init /\ [][Next]_vars

\* the fetches: every subset of failing requests
InitFetch == InitWith(SUBSET Collections, ColSets, Tables(RunRows, 1))

SpecFetch == InitFetch /\ [][Next]_vars

\* one group: account numbers, posting types and amounts
LineRows ==
  {Row(IdCell(1), acct, StrCell(posting), amount, None, StrCell("USD")) :
     acct \in {IntCell("100"), IntCell("999"), IntCell("0")},
     posting \in {"Credit", "Debit", "Transfer"},
     amount \in {125, 150004}}

InitLines ==
  InitWith({{}, {"Accounts"}, Collections \ {"Accounts"}}, ColSets,
           Tables(LineRows, MaxGroupRows))

SpecLines == InitLines /\ [][Next]_vars

\* one group with account numbers that are never falsy, under every subset
\* of missing collections
AbsentRows ==
  {Row(IdCell(1), IntCell(acct), StrCell(posting), 125, None, StrCell("USD")) :
     acct \in {"100", "999"},
     posting \in {"Credit", "Debit"}}

InitAbsent == InitWith(SUBSET Collections, ColSets, Tables(AbsentRows, MaxGroupRows))

SpecAbsent == InitAbsent /\ [][Next]_vars

\* one group: explicit and default subsidiaries on either side; None is a
\* row without a Subsidiary value (row.get("Subsidiary") is falsy)
SubsidiaryRows ==
  {Row(IdCell(1), IntCell(acct), StrCell(posting), 125, subsidiary, StrCell("USD")) :
     acct \in {"100", "200"},
     posting \in {"Credit", "Debit"},
     subsidiary \in {None, StrCell("5"), IntCell("5")}}

InitSubsidiary ==
  InitWith({{}, {"Departments"}}, ColSets, Tables(SubsidiaryRows, MaxGroupRows))

SpecSubsidiary == InitSubsidiary /\ [][Next]_vars

\* currency symbols: known, unknown, no value
CurrencyRows ==
  {Row(IdCell(id), IntCell(acct), StrCell("Debit"), 125, None, currency) :
     id \in {1, 2},
     acct \in {"100", "999"},
     currency \in {StrCell("USD"), StrCell("EUR"), None}}

InitCurrency ==
  InitWith({{}, {"Currencies"}}, ColSets, Tables(CurrencyRows, MaxGroupRows))

SpecCurrency == InitCurrency /\ [][Next]_vars

----------------------------------------------------------------------------
\* Properties.

FetchPcs == {"Locations", "Accounts", "Classifications", "Currencies", "Departments"}

Count(c, log) == Cardinality({k \in 1..Len(log) : log[k] = c})

\* the row's account number, stringified, is the acctNumber of an account
\* of the index
Resolves(row) ==
  \E k \in 1..Len(Get(reference_data, "Accounts")) :
     Get(reference_data, "Accounts")[k].acctNumber = PyStr(row.AccountNumber)

LineList(k) == lines[k].journal_entry["lineList"]

\* C1 (account gating): in every entry built, the rows that appended a line
\* are exactly the rows of the group whose account number resolves, so the
\* entry has as many lines as the group has resolved rows.
AccountGating ==
  \A k \in 1..Len(lines) :
     /\ lines[k].appended_by = SelectSeq(groups[k].index, LAMBDA i : Resolves(df.rows[i]))
     /\ Len(LineList(k)) = Cardinality({i \in 1..Len(df.rows) :
                                          /\ \E j \in 1..Len(groups[k].index) : groups[k].index[j] = i
                                          /\ Resolves(df.rows[i])})

\* C2 (credit/debit exclusivity): every line of every entry built has at
\* most one of credit and debit, the one that is set is the rounded Amount
\* of the row that appended the line, and a row that is neither Credit nor
\* Debit gives a line with neither.
CreditDebitExclusive ==
  \A k \in 1..Len(lines) :
     \A j \in 1..Len(LineList(k)) :
        LET line == LineList(k)[j]
            row == df.rows[lines[k].appended_by[j]]
        IN  /\ ~ ({"credit", "debit"} \subseteq DOMAIN line)
            /\ row.PostingType = StrCell("Credit")
                 => "credit" \in DOMAIN line /\ line["credit"] = Round2(row.Amount)
            /\ row.PostingType = StrCell("Debit")
                 => "debit" \in DOMAIN line /\ line["debit"] = Round2(row.Amount)
            /\ row.PostingType \notin {StrCell("Credit"), StrCell("Debit")}
                 => "credit" \notin DOMAIN line /\ "debit" \notin DOMAIN line

GroupingComplete ==
  pc = "apply" =>
    /\ \A i \in 1..Len(df.rows) :
          /\ Cardinality({k \in 1..Len(groups) :
                            \E j \in 1..Len(groups[k].index) : groups[k].index[j] = i}) = 1
          /\ \A k \in 1..Len(groups) :
                (\E j \in 1..Len(groups[k].index) : groups[k].index[j] = i)
                  => df.rows[i].JournalEntryId = IdCell(groups[k].key)
    /\ \A k \in 1..Len(groups) : groups[k].index # << >>
    /\ \A k, l \in 1..Len(groups) : groups[k].key = groups[l].key => k = l

\* C5 (independent posting failures): when the run is over and the post of
\* some entry failed, every entry after it was submitted too.
PostingIndependent ==
  (pc \in {"done", "raised"} /\ \E i \in 1..Len(posted) : ~ posted[i].ok)
    => Len(posted) = Len(journals)

\* C6 (absent collections degrade): with some collection missing from the
\* reference data, build_lines never raises; with Accounts missing every
\* entry has no line, and with Classifications, Departments, Locations or
\* Currencies missing the field that depends on it is unset.
AbsentCollectionsDegrade ==
  (pc \notin FetchPcs /\ DOMAIN reference_data # Collections) =>
    /\ exc \notin {UnboundLine, UnboundCurrency}
    /\ \A k \in 1..Len(lines) :
          /\ "Accounts" \notin DOMAIN reference_data => LineList(k) = << >>
          /\ "Currencies" \notin DOMAIN reference_data => lines[k].journal_entry["currency"] = None
          /\ \A j \in 1..Len(LineList(k)) :
                /\ "Classifications" \notin DOMAIN reference_data => "class" \notin DOMAIN LineList(k)[j]
                /\ "Departments" \notin DOMAIN reference_data => "department" \notin DOMAIN LineList(k)[j]
                /\ "Locations" \notin DOMAIN reference_data => "location" \notin DOMAIN LineList(k)[j]

\* C7 (schema error is fatal and first): with a required column missing
\* the run never groups a row, never calls build_lines and never posts, and
\* it ends at the validation with exit status 1; with every required column
\* present the validation never ends the run.
SchemaErrorFatal ==
  /\ ~ (REQUIRED_COLS \subseteq df.columns) =>
        /\ pc \in FetchPcs \cup {"validate", "exit"}
        /\ Len(groups) = 0 /\ build_calls = 0 /\ lines = << >> /\ posted = << >>
        /\ pc = "exit" => ExitCode = 1
  /\ REQUIRED_COLS \subseteq df.columns => pc # "exit"

WitnessSchemaExit ==
  /\ pc = "exit"
  /\ "Description" \notin df.columns
  /\ Len(fetch_log) = 5
  /\ Len(df.rows) > 1

\* C8 (independent fetches): no collection is requested twice; a failed
\* request never ends get_reference_data early; when it returns, each of
\* the five collections was requested exactly once and the reference data
\* holds exactly the collections whose request succeeded.
FetchesIndependent ==
  /\ \A c \in Collections : Count(c, fetch_log) <= 1
  /\ Len(fetch_log) < 5 => pc \in FetchPcs
  /\ pc \notin FetchPcs =>
        /\ \A c \in Collections : Count(c, fetch_log) = 1
        /\ DOMAIN reference_data = Collections \ failing
        /\ \A c \in DOMAIN reference_data : reference_data[c] = Server[c]

WitnessFetchFailures ==
  /\ pc = "validate"
  /\ failing = {"Accounts", "Currencies"}
  /\ DOMAIN reference_data = {"Locations", "Classifications", "Departments"}

\* the currency of a group: the reference of the Currencies record whose
\* symbol is the last row's Currency, else None
ExpectedCurrency(g) ==
  LET row == df.rows[g.index[Len(g.index)]]
      found == SelectSeq(Get(reference_data, "Currencies"), LAMBDA c : c.symbol = row.Currency)
  IN  IF found # << >>
      THEN [name |-> found[1].symbol, externalId |-> found[1].externalId,
            internalId |-> found[1].internalId]
      ELSE None

\* C9 (currency resolution): build_lines returns an entry for every group;
\* its currency is the reference matched by the last row's Currency, and
\* is unset when nothing matches or the row has no Currency.
CurrencyResolution ==
  /\ exc # UnboundCurrency
  /\ \A k \in 1..Len(lines) :
        lines[k].journal_entry["currency"] = ExpectedCurrency(groups[k])

JournalIds == [k \in 1..Len(journals) |-> journals[k]["externalId"].n]

\* the code's "continue": Accounts is loaded, the row has an account number
\* and no account matches it
Skipped(row) ==
  /\ Get(reference_data, "Accounts") # << >>
  /\ Truthy(row.AccountNumber)
  /\ ~ Resolves(row)

LinesInRowOrder ==
  \A k \in 1..Len(lines) :
     lines[k].appended_by = SelectSeq(groups[k].index, LAMBDA i : ~ Skipped(df.rows[i]))

PostedInOrder == \A k \in 1..Len(posted) : posted[k].journal = k

\* C10 as stated (emission order): the entries returned, and so the posts,
\* follow the order in which the ids first appear in the input, and the
\* lines of an entry follow the group's rows minus the skipped ones.
EmissionOrderFirstSeen ==
  pc \in {"post", "done"} =>
    /\ JournalIds = FirstSeen(df.rows, {})
    /\ PostedInOrder
    /\ LinesInRowOrder

\* C10 amended: the entries returned, and so the posts, are in ascending
\* order of their ids, and the lines of an entry follow the group's rows
\* minus the skipped ones.
EmissionOrderSorted ==
  pc \in {"post", "done"} =>
    /\ \A k \in 1..Len(journals) - 1 : JournalIds[k] < JournalIds[k + 1]
    /\ {JournalIds[k] : k \in 1..Len(journals)}
         = {df.rows[i].JournalEntryId.n :
              i \in {j \in 1..Len(df.rows) : df.rows[j].JournalEntryId.t # "nan"}}
    /\ PostedInOrder
    /\ LinesInRowOrder

WitnessEmissionOrder ==
  /\ pc = "done"
  /\ Len(df.rows) = 3
  /\ df.rows[1].JournalEntryId = IdCell(2)
  /\ df.rows[2].JournalEntryId = IdCell(1)
  /\ JournalIds = <<1, 2>>
  /\ Len(posted) = 2
  /\ \E k \in 1..2 : Len(groups[k].index) = 2 /\ Len(LineList(k)) = 1

====
